---- MODULE Spec2Model ----
(***************************************************************************)
(* Model of scripts/ooda_dag.py: evaluation of a task graph with AND/OR    *)
(* gates.  main() is a state machine over its sections; ready_nodes,       *)
(* satisfied_nodes and score are operators computed as the code computes   *)
(* them (loops are folds over the sequence the code iterates).             *)
(*                                                                         *)
(* networkx is a library: its DiGraph queries, topological_generations,    *)
(* topological_sort, is_directed_acyclic_graph and dag_longest_path are    *)
(* modelled after the library's algorithms.  The edge list is taken to be  *)
(* between declared nodes and listed in node order, so adjacency order is  *)
(* node order.  node_types is the map after its normalisation (lines      *)
(* 75-78): every node carries "and" or "or".  Weights are integers and a   *)
(* score is kept as the exact quotient <<impact, e>>.  The iteration order *)
(* of the Python set ready_now is not fixed: any order may occur.          *)
(***************************************************************************)
EXTENDS Integers, Sequences, FiniteSets, TLC

VARIABLES nodes, edges, node_types, weights_map, done_set,
          pc, round, out,
          order, sources, sinks, layers, longest,
          source_scores, recommended, initial_ready,
          ready_now, recommended_next,
          sat, changed, passes, goal_reached,
          fn_ready, sat1

inputs == <<nodes, edges, node_types, weights_map, done_set>>
analysis == <<order, sources, sinks, layers, longest,
              source_scores, recommended, initial_ready>>
nowvars == <<ready_now, recommended_next>>
satvars == <<sat, changed, passes>>
fnvars == <<fn_ready, sat1>>
vars == <<inputs, pc, round, out, analysis, nowvars, satvars, goal_reached, fnvars>>

(***************************************************************************)
(* Bounds and input universe                                               *)
(***************************************************************************)
\* identifiers a node list is drawn from (a node list is a prefix of it)
NodePool == <<"A", "B", "C", "D">>
\* identifiers that may occur in "done" without being nodes
GhostIds == {"X"}
\* largest number of edges in an input graph
MaxEdges == 3
\* largest number of edges in the inputs of the scoring specification
MaxScoreEdges == 1

DEFAULT_IMPACT == 3
DEFAULT_EFFORT == 3
DEFAULT_NODE_TYPE == "and"

Range(s) == {s[i] : i \in DOMAIN s}
Pos(n) == CHOOSE i \in DOMAIN NodePool : NodePool[i] = n

RECURSIVE SortByPos(_)
SortByPos(S) ==
    IF S = {} THEN <<>>
    ELSE LET m == CHOOSE x \in S : \A y \in S : Pos(x) <= Pos(y)
         IN <<m>> \o SortByPos(S \ {m})

RECURSIVE Flatten(_)
Flatten(ss) == IF ss = <<>> THEN <<>> ELSE Head(ss) \o Flatten(Tail(ss))

\* all orderings of a finite set (the iteration orders a Python set may have)
RECURSIVE Orderings(_)
Orderings(S) ==
    IF S = {} THEN {<<>>}
    ELSE UNION {{<<x>> \o s : s \in Orderings(S \ {x})} : x \in S}

(***************************************************************************)
(* Graph queries (nx.DiGraph)                                              *)
(***************************************************************************)
Predecessors(n) == {e[1] : e \in {x \in edges : x[2] = n}}
Successors(n) == {e[2] : e \in {x \in edges : x[1] = n}}
in_degree(n) == Cardinality({e \in edges : e[2] = n})
out_degree(n) == Cardinality({e \in edges : e[1] = n})
\* G.neighbors(n): successors in adjacency (edge insertion) order
neighbors(n) == SortByPos(Successors(n))

(***************************************************************************)
(* nx.topological_generations / topological_sort / is_directed_acyclic     *)
(***************************************************************************)
RECURSIVE ScanChildren(_, _, _)
ScanChildren(children, processed, acc) ==
    IF children = <<>> THEN acc
    ELSE LET c == Head(children)
         IN ScanChildren(Tail(children), processed,
                IF Predecessors(c) \subseteq processed
                THEN Append(acc, c) ELSE acc)

RECURSIVE ScanGeneration(_, _, _)
ScanGeneration(gen, processed, acc) ==
    IF gen = <<>> THEN acc
    ELSE LET u == Head(gen)
             p == processed \cup {u}
         IN ScanGeneration(Tail(gen), p, ScanChildren(neighbors(u), p, acc))

RECURSIVE Generations(_, _)
Generations(gen, processed) ==
    IF gen = <<>> THEN <<>>
    ELSE <<gen>> \o Generations(ScanGeneration(gen, processed, <<>>),
                                processed \cup Range(gen))

topological_generations ==
    LET zero(n) == in_degree(n) = 0
    IN Generations(SelectSeq(nodes, zero), {})

topological_sort == Flatten(topological_generations)

\* variant: only self-loops are looked for
is_dag_no_self_loop == \A n \in Range(nodes) : <<n, n>> \notin edges

\* a graph is a DAG iff the generations consume every node
is_directed_acyclic_graph == Len(topological_sort) = Len(nodes)

(***************************************************************************)
(* nx.dag_longest_path: dist[v] = (length, predecessor) over the           *)
(* topological order; the path ends at the first node of maximal length.   *)
(***************************************************************************)
RECURSIVE FirstMaxLen(_, _)
\* Python max(seq, key) over pairs <<length, node>> with key the length:
\* the first pair whose length is maximal
FirstMaxLen(seq, best) ==
    IF seq = <<>> THEN best
    ELSE FirstMaxLen(Tail(seq), IF Head(seq)[1] > best[1] THEN Head(seq) ELSE best)

RECURSIVE LongestDist(_, _)
LongestDist(ord, dist) ==
    IF ord = <<>> THEN dist
    ELSE LET v == Head(ord)
             us == LET mk(u) == <<dist[u][1] + 1, u>>
                       ps == SortByPos(Predecessors(v))
                   IN [i \in DOMAIN ps |-> mk(ps[i])]
             maxu == IF us = <<>> THEN <<0, v>>
                     ELSE FirstMaxLen(Tail(us), Head(us))
         IN LongestDist(Tail(ord), [dist EXCEPT ![v] = maxu])

RECURSIVE WalkBack(_, _, _)
WalkBack(dist, v, path) ==
    IF dist[v][2] = v THEN <<v>> \o path
    ELSE WalkBack(dist, dist[v][2], <<v>> \o path)

dag_longest_path ==
    IF topological_sort = <<>> THEN <<>>
    ELSE LET ord == topological_sort
             dist == LongestDist(ord, [n \in Range(nodes) |-> <<0, n>>])
             ends == [i \in DOMAIN ord |-> <<dist[ord[i]][1], ord[i]>>]
             v == FirstMaxLen(Tail(ends), Head(ends))[2]
         IN WalkBack(dist, v, <<>>)

(***************************************************************************)
(* score, ready_nodes, satisfied_nodes                                     *)
(***************************************************************************)
\* score(impact, effort): the quotient impact / e as the pair <<impact, e>>
score(impact, effort) ==
    LET e == IF effort >= 1 THEN effort ELSE 1
    IN <<impact, e>>

\* p > q for quotients with positive denominators
ScoreGT(p, q) == p[1] * q[2] > q[1] * p[2]

\* node_types.get(n, DEFAULT_NODE_TYPE)
NodeType(n) == IF n \in DOMAIN node_types THEN node_types[n] ELSE DEFAULT_NODE_TYPE

\* variant: the AND test written as the OR test
and_gate_any(preds, done) == preds \cap done # {}

\* the AND test of both functions: preds <= done
and_gate(preds, done) == preds \subseteq done

\* variant: the OR test written as the AND test
or_gate_all(preds, done) == preds \subseteq done

\* the OR test of both functions: preds & done
or_gate(preds, done) == preds \cap done # {}

RECURSIVE ready_nodes_loop(_, _, _)
ready_nodes_loop(ns, done, result) ==
    IF ns = <<>> THEN result
    ELSE LET n == Head(ns)
             preds == Predecessors(n)
         IN ready_nodes_loop(Tail(ns), done,
                IF preds = {} THEN result \cup {n}
                ELSE IF NodeType(n) = "and"
                     THEN (IF and_gate(preds, done) THEN result \cup {n} ELSE result)
                     ELSE (IF or_gate(preds, done) THEN result \cup {n} ELSE result))

ready_nodes(done) == ready_nodes_loop(nodes, done, {})

\* the argument done of the current satisfied_nodes call
call_done == IF round = 2 THEN sat1 ELSE done_set

\* variant: a node without predecessors is added instead of skipped
sat_visit_sources(n, s) ==
    LET preds == Predecessors(n)
    IN IF n \in s THEN s
       ELSE IF preds = {} THEN s \cup {n}
       ELSE IF NodeType(n) = "and" /\ and_gate(preds, s) THEN s \cup {n}
       ELSE IF NodeType(n) = "or" /\ or_gate(preds, s) THEN s \cup {n}
       ELSE s

\* variant: the gates are tested against done instead of sat
sat_visit_done(n, s) ==
    LET preds == Predecessors(n)
    IN IF n \in s THEN s
       ELSE IF preds = {} THEN s
       ELSE IF NodeType(n) = "and" /\ and_gate(preds, call_done) THEN s \cup {n}
       ELSE IF NodeType(n) = "or" /\ or_gate(preds, call_done) THEN s \cup {n}
       ELSE s

\* what one node of the scan does to sat (lines 49-60)
sat_visit(n, s) ==
    LET preds == Predecessors(n)
    IN IF n \in s THEN s
       ELSE IF preds = {} THEN s
       ELSE IF NodeType(n) = "and" /\ and_gate(preds, s) THEN s \cup {n}
       ELSE IF NodeType(n) = "or" /\ or_gate(preds, s) THEN s \cup {n}
       ELSE s

\* one execution of the while body: the for loop over order
RECURSIVE sat_scan(_, _)
sat_scan(ord, s) ==
    IF ord = <<>> THEN s ELSE sat_scan(Tail(ord), sat_visit(Head(ord), s))

\* variant: a single pass, no re-scan
while_first_pass == passes = 0

\* variant: changed is never reset, the loop goes on (followed for six passes)
while_unreset == passes < 6

\* the while condition
while_changed == changed

\* satisfied_nodes as a function: passes until one adds nothing
RECURSIVE sat_loop(_, _)
sat_loop(ord, s) ==
    LET t == sat_scan(ord, s)
    IN IF t = s THEN s ELSE sat_loop(ord, t)

satisfied_nodes(done) == sat_loop(topological_sort, done)

(***************************************************************************)
(* main(): weights and recommendation                                      *)
(***************************************************************************)
\* w.get(key, default) on weights_map.get(node, {})
weight_get(node, key, default) ==
    IF node \in DOMAIN weights_map /\ key \in DOMAIN weights_map[node]
    THEN weights_map[node][key] ELSE default

get_impact_effort(node) ==
    <<weight_get(node, "impact", DEFAULT_IMPACT),
      weight_get(node, "effort", DEFAULT_EFFORT)>>

\* the list of (n, imp, eff, score) built over a candidate list
score_list(cands) ==
    [i \in DOMAIN cands |->
        LET ie == get_impact_effort(cands[i])
        IN <<cands[i], ie[1], ie[2], score(ie[1], ie[2])>>]

\* variant: the first candidate, whatever its score
recommend_first(scores) == IF scores = <<>> THEN "" ELSE Head(scores)[1]

RECURSIVE FirstMaxScore(_, _)
\* Python max(scores, key=lambda x: x[3]): the first entry of maximal score
FirstMaxScore(seq, best) ==
    IF seq = <<>> THEN best
    ELSE FirstMaxScore(Tail(seq),
                       IF ScoreGT(Head(seq)[4], best[4]) THEN Head(seq) ELSE best)

\* max(scores, key=lambda x: x[3])[0] if scores else ""
recommend(scores) ==
    IF scores = <<>> THEN ""
    ELSE FirstMaxScore(Tail(scores), Head(scores))[1]

(***************************************************************************)
(* Inputs                                                                  *)
(***************************************************************************)
NodeLists == {SubSeq(NodePool, 1, k) : k \in 0..Len(NodePool)}

\* edges along the node order, and three edges against it (so that
\* self-loops, 2-cycles, 3-cycles and DAGs listed out of order occur)
EdgeUniverse(ns) ==
    {e \in Range(ns) \X Range(ns) : Pos(e[1]) < Pos(e[2])}
    \cup ({<<"A", "A">>, <<"B", "A">>, <<"C", "A">>} \cap (Range(ns) \X Range(ns)))

Graphs(ns, max) == {E \in SUBSET EdgeUniverse(ns) : Cardinality(E) <= max}

EmptyMap == [n \in {} |-> 0]

\* weight entries of the weights map: both keys, one key
WeightDicts ==
    { [impact |-> 6, effort |-> 2],
      [impact |-> 4, effort |-> 0],
      [effort |-> 1] }

WeightMaps(ns) == UNION {[S -> WeightDicts] : S \in SUBSET Range(ns)}

\* nothing computed, nothing printed
Blank ==
    /\ out = <<>>
    /\ order = <<>> /\ sources = <<>> /\ sinks = <<>>
    /\ layers = <<>> /\ longest = <<>>
    /\ source_scores = <<>> /\ recommended = "" /\ initial_ready = {}
    /\ ready_now = {} /\ recommended_next = ""
    /\ sat = {} /\ changed = FALSE /\ passes = 0
    /\ goal_reached = "none"
    /\ fn_ready = {} /\ sat1 = {}

\* main() on a graph (cyclic or not), gate types and a done list; no weights
Init ==
    /\ nodes \in NodeLists
    /\ edges \in Graphs(nodes, MaxEdges)
    /\ node_types \in [Range(nodes) -> {"and", "or"}]
    /\ weights_map = EmptyMap
    /\ done_set \in SUBSET (Range(nodes) \cup GhostIds)
    /\ pc = "start" /\ round = 0
    /\ Blank

(***************************************************************************)
(* main()                                                                  *)
(***************************************************************************)
\* lines 85-87: the graph has a cycle; message on stderr, exit status 1
CycleError ==
    /\ pc = "start"
    /\ ~is_directed_acyclic_graph
    /\ pc' = "error"
    /\ UNCHANGED <<inputs, round, out, analysis, nowvars, satvars, goal_reached, fnvars>>

\* lines 89-128: order, sources, sinks, layers, longest path, source scores,
\* recommended first; the first five sections are printed
Analyse ==
    /\ pc = "start"
    /\ is_directed_acyclic_graph
    /\ order' = topological_sort
    /\ sources' = LET src(n) == in_degree(n) = 0 IN SelectSeq(nodes, src)
    /\ sinks' = LET snk(n) == out_degree(n) = 0 IN SelectSeq(nodes, snk)
    /\ layers' = topological_generations
    /\ longest' = dag_longest_path
    /\ source_scores' = score_list(sources')
    /\ recommended' = recommend(source_scores')
    /\ initial_ready' = ready_nodes({})
    /\ out' = out \o <<"TOPOLOGICAL_ORDER", "SOURCES", "SINKS", "NODE_TYPES",
                       "READY_INITIAL">>
    /\ pc' = "now"
    /\ UNCHANGED <<inputs, round, nowvars, satvars, goal_reached, fnvars>>

\* lines 129-143: a non-empty done set; READY_NOW and RECOMMENDED_NEXT are
\* printed (ready_scores follows the iteration order of the set ready_now),
\* then satisfied_nodes is entered (lines 43-45)
ReadyNow ==
    /\ pc = "now"
    /\ done_set # {}
    /\ ready_now' = ready_nodes(done_set) \ done_set
    /\ \E it \in Orderings(ready_now') :
           recommended_next' = recommend(score_list(it))
    /\ out' = out \o <<"READY_NOW", "RECOMMENDED_NEXT">>
    /\ sat' = done_set
    /\ changed' = TRUE
    /\ passes' = 0
    /\ pc' = "sat"
    /\ UNCHANGED <<inputs, round, analysis, goal_reached, fnvars>>

\* line 129: an empty done set skips lines 130-149
SkipNow ==
    /\ pc = "now"
    /\ done_set = {}
    /\ pc' = "tail"
    /\ UNCHANGED <<inputs, round, out, analysis, nowvars, satvars, goal_reached, fnvars>>

\* lines 46-60: one execution of the while body, scanning in topological order
SatPass ==
    /\ pc = "sat"
    /\ while_changed
    /\ sat' = sat_scan(topological_sort, sat)
    /\ changed' = (sat' # sat)
    /\ passes' = passes + 1
    /\ UNCHANGED <<inputs, pc, round, out, analysis, nowvars, goal_reached, fnvars>>

\* variant: the test without "sinks and"
goal_test_vacuous(snk, satisfied) == Range(snk) \subseteq satisfied

\* line 144: sinks and set(sinks) <= satisfied
goal_test(snk, satisfied) == snk # <<>> /\ Range(snk) \subseteq satisfied

\* lines 61, 144-149: satisfied_nodes returns to main
GoalReached ==
    /\ pc = "sat"
    /\ round = 0
    /\ ~while_changed
    /\ goal_reached' = IF goal_test(sinks, sat) THEN "yes" ELSE "no"
    /\ out' = Append(out, "GOAL_REACHED")
    /\ pc' = "tail"
    /\ UNCHANGED <<inputs, round, analysis, nowvars, satvars, fnvars>>

\* lines 150-160
PrintTail ==
    /\ pc = "tail"
    /\ out' = out \o <<"LAYERS", "LONGEST_PATH", "SOURCE_SCORES", "RECOMMENDED_FIRST">>
    /\ pc' = "done"
    /\ UNCHANGED <<inputs, round, analysis, nowvars, satvars, goal_reached, fnvars>>

Next ==
    \/ CycleError
    \/ Analyse
    \/ ReadyNow
    \/ SkipNow
    \/ SatPass
    \/ GoalReached
    \/ PrintTail

Spec == Init /\ [][Next]_vars

(***************************************************************************)
(* main() with weights: few edges, default gates, every weight map         *)
(***************************************************************************)
InitScore ==
    /\ nodes \in NodeLists
    /\ edges \in Graphs(nodes, MaxScoreEdges)
    /\ node_types = [n \in Range(nodes) |-> DEFAULT_NODE_TYPE]
    /\ weights_map \in WeightMaps(nodes)
    /\ done_set \in SUBSET Range(nodes)
    /\ pc = "start" /\ round = 0
    /\ Blank

SpecScore == InitScore /\ [][Next]_vars

(***************************************************************************)
(* The functions called directly: ready_nodes(G, done, node_types), then   *)
(* satisfied_nodes(G, done, node_types), then satisfied_nodes on its own   *)
(* result.  round is the number of the satisfied_nodes call (0 in main).   *)
(***************************************************************************)
InitFn ==
    /\ nodes \in NodeLists
    /\ edges \in Graphs(nodes, MaxEdges)
    /\ is_directed_acyclic_graph
    /\ node_types \in [Range(nodes) -> {"and", "or"}]
    /\ weights_map = EmptyMap
    /\ done_set \in SUBSET (Range(nodes) \cup GhostIds)
    /\ pc = "fn_ready" /\ round = 1
    /\ Blank

\* lines 23-38
FnReady ==
    /\ pc = "fn_ready"
    /\ fn_ready' = ready_nodes(done_set)
    /\ pc' = "fn_sat"
    /\ UNCHANGED <<inputs, round, out, analysis, nowvars, satvars, goal_reached, sat1>>

\* lines 43-45: satisfied_nodes is entered with the argument of this call
FnSatisfied ==
    /\ pc = "fn_sat"
    /\ sat' = call_done
    /\ changed' = TRUE
    /\ passes' = 0
    /\ pc' = "sat"
    /\ UNCHANGED <<inputs, round, out, analysis, nowvars, goal_reached, fnvars>>

\* line 61: the first call returns sat1, the second call ends the run
FnReturn ==
    /\ pc = "sat"
    /\ round >= 1
    /\ ~while_changed
    /\ IF round = 1
       THEN sat1' = sat /\ round' = 2 /\ pc' = "fn_sat"
       ELSE pc' = "fn_done" /\ UNCHANGED <<sat1, round>>
    /\ UNCHANGED <<inputs, out, analysis, nowvars, satvars, goal_reached, fn_ready>>

NextFn ==
    \/ FnReady
    \/ FnSatisfied
    \/ SatPass
    \/ FnReturn

SpecFn == InitFn /\ [][NextFn]_vars

(***************************************************************************)
(* satisfied_nodes with the scan order replaced: every pass scans the      *)
(* nodes in some order, any permutation, chosen anew at each pass (every   *)
(* fixed scan order is one of these runs).                                 *)
(***************************************************************************)
SatPassAnyOrder ==
    /\ pc = "sat"
    /\ while_changed
    /\ \E ord \in Orderings(Range(nodes)) : sat' = sat_scan(ord, sat)
    /\ changed' = (sat' # sat)
    /\ passes' = passes + 1
    /\ UNCHANGED <<inputs, pc, round, out, analysis, nowvars, goal_reached, fnvars>>

NextAnyOrder ==
    \/ FnReady
    \/ FnSatisfied
    \/ SatPassAnyOrder
    \/ FnReturn

SpecAnyOrder == InitFn /\ [][NextAnyOrder]_vars

(***************************************************************************)
(* Vocabulary of the properties, stated from the graph alone               *)
(***************************************************************************)
NodeSet == Range(nodes)
Sourceless == {n \in NodeSet : Predecessors(n) = {}}
SinkSet == {n \in NodeSet : Successors(n) = {}}

\* the gate condition of node n against a set S
GateMet(n, S) ==
    \/ NodeType(n) = "and" /\ \A p \in Predecessors(n) : p \in S
    \/ NodeType(n) = "or" /\ \E p \in Predecessors(n) : p \in S

\* S holds every node with predecessors whose gate S meets
GateClosed(S) ==
    \A n \in NodeSet : (Predecessors(n) # {} /\ GateMet(n, S)) => n \in S

\* done plus every node unlocked through a chain of satisfied predecessors:
\* the least gate-closed set that includes done
Unlocked(done) ==
    {n \in done \cup NodeSet :
        \A T \in SUBSET (NodeSet \ done) : GateClosed(done \cup T) => n \in done \cup T}

RECURSIVE Descendants(_)
Descendants(S) ==
    LET T == S \cup UNION {Successors(n) : n \in S}
    IN IF T = S THEN S ELSE Descendants(T)

HasCycle == \E n \in NodeSet : n \in Descendants(Successors(n))

\* the scenario graph: edges (A,C), (B,C), (C,D), every node AND-gated
Scenario ==
    /\ nodes = <<"A", "B", "C", "D">>
    /\ edges = {<<"A", "C">>, <<"B", "C">>, <<"C", "D">>}
    /\ \A n \in NodeSet : node_types[n] = "and"

Max(a, b) == IF a >= b THEN a ELSE b

\* the first satisfied_nodes call of the direct-call run has returned sat1
FirstReturned == round = 2

----------------------------------------------------------------------------
C2_GoalReached ==
    pc \in {"tail", "done"} =>
        LET satisfied == Unlocked(done_set)
        IN /\ goal_reached = "yes" <=> (SinkSet # {} /\ SinkSet \subseteq satisfied)
           /\ done_set # {} => sat = satisfied /\ goal_reached \in {"yes", "no"}
           /\ (Scenario /\ done_set = {"A", "B", "C"}) =>
                  sat = {"A", "B", "C", "D"} /\ goal_reached = "yes"

C2_Witness ==
    /\ pc = "done"
    /\ Scenario
    /\ done_set = {"A", "B", "C"}
    /\ goal_reached = "yes"

(* C3 (as stated): in the scenario graph ready-now is empty for           *)
(* done = {A} and is {C} for done = {A,B}.                                 *)
C3_ScenarioReadyNow ==
    (Scenario /\ pc \in {"sat", "tail", "done"}) =>
        /\ done_set = {"A"} => ready_now = {}
        /\ done_set = {"A", "B"} => ready_now = {"C"}

(* C3 (amended): in the scenario graph ready-now is {B} for done = {A}     *)
(* (B has no predecessors and is not done) and is {C} for done = {A,B}.    *)
C3_ScenarioReadyNowWithSource ==
    (Scenario /\ pc \in {"sat", "tail", "done"}) =>
        /\ done_set = {"A"} => ready_now = {"B"}
        /\ done_set = {"A", "B"} => ready_now = {"C"}

C3_Witness ==
    /\ Scenario
    /\ pc = "done"
    /\ done_set = {"A"}
    /\ ready_now = {"B"}
    /\ "READY_NOW" \in Range(out)

(* C4: a node n not in done is in ready(done) iff it has no predecessors,  *)
(* or is AND-gated with every predecessor in done, or is OR-gated with     *)
(* some predecessor in done; ready of the empty set is the set of nodes    *)
(* without predecessors.                                                   *)
C4_ReadyIffGate ==
    pc # "fn_ready" =>
        /\ \A n \in NodeSet \ done_set :
               n \in fn_ready <=>
                   \/ Predecessors(n) = {}
                   \/ NodeType(n) = "and" /\ \A p \in Predecessors(n) : p \in done_set
                   \/ NodeType(n) = "or" /\ \E p \in Predecessors(n) : p \in done_set
        /\ fn_ready \subseteq NodeSet
        /\ done_set = {} => fn_ready = Sourceless

C4_Witness ==
    /\ pc = "fn_done"
    /\ \E c \in NodeSet \ done_set :
           /\ Predecessors(c) = {"A", "B"}
           /\ NodeType(c) = "or"
           /\ done_set = {"A"}
           /\ c \in fn_ready
    /\ \E d \in NodeSet \ done_set :
           /\ NodeType(d) = "and"
           /\ Predecessors(d) # {}
           /\ d \notin fn_ready

(* C5: a graph with a directed cycle ends in the cyclic-error outcome and  *)
(* nothing else is computed or emitted, before or after the error.         *)
C5_CycleOnlyError ==
    HasCycle =>
        /\ Blank
        /\ pc \in {"start", "error"}
        /\ ~is_directed_acyclic_graph

C5_Witness ==
    /\ pc = "error"
    /\ {<<"A", "B">>, <<"B", "A">>} \subseteq edges
    /\ <<"A", "A">> \notin edges

(* C6: done entries that are not nodes have no effect: the fields          *)
(* produced, ready-now, recommended-next and goal-reached are those of     *)
(* the run with done restricted to the node set.                           *)
C6_GhostEntriesInert ==
    pc = "done" =>
        LET d == done_set \cap NodeSet
            rn == ready_nodes(d) \ d
        IN /\ "READY_NOW" \in Range(out) <=> d # {}
           /\ "RECOMMENDED_NEXT" \in Range(out) <=> d # {}
           /\ "GOAL_REACHED" \in Range(out) <=> d # {}
           /\ d # {} =>
                 /\ ready_now = rn
                 /\ recommended_next \in {recommend(score_list(it)) : it \in Orderings(rn)}
                 /\ goal_reached =
                        IF goal_test(sinks, satisfied_nodes(d)) THEN "yes" ELSE "no"

(* C7: satisfied(satisfied(done)) = satisfied(done).                       *)
C7_SatisfiedIdempotent ==
    pc = "fn_done" => sat = sat1

C7_Witness ==
    /\ pc = "fn_done"
    /\ sat = sat1
    /\ Cardinality(sat1 \ done_set) >= 2
    /\ \E n \in sat1 \ done_set : NodeType(n) = "or"

(* C8: impact 6, effort 2 scores 3 and impact 4, effort 0 scores 4; the    *)
(* recommended node is a candidate whose score impact / max(effort, 1)     *)
(* (missing weights 3 and 3) is at least that of every candidate, and the  *)
(* recommendation is empty exactly when there is no candidate (sources     *)
(* for recommended-first, ready-now for recommended-next).                 *)
WeightOf(n, key, default) ==
    IF n \in DOMAIN weights_map
    THEN (IF key \in DOMAIN weights_map[n] THEN weights_map[n][key] ELSE default)
    ELSE default

\* impact / max(effort, 1) of n is at least that of m
ScoresAtLeast(n, m) ==
    WeightOf(n, "impact", 3) * Max(WeightOf(m, "effort", 3), 1)
        >= WeightOf(m, "impact", 3) * Max(WeightOf(n, "effort", 3), 1)

BestOf(r, cands) ==
    /\ cands = {} <=> r = ""
    /\ cands # {} => r \in cands /\ \A c \in cands : ScoresAtLeast(r, c)

C8_RecommendedIsBest ==
    /\ score(6, 2)[1] = 3 * score(6, 2)[2]
    /\ score(4, 0)[1] = 4 * score(4, 0)[2]
    /\ pc \in {"now", "sat", "tail", "done"} => BestOf(recommended, Sourceless)
    /\ "RECOMMENDED_NEXT" \in Range(out) => BestOf(recommended_next, ready_now)

C8_Witness ==
    /\ pc = "done"
    /\ Cardinality(ready_now) >= 2
    /\ recommended_next \in ready_now
    /\ WeightOf(recommended_next, "effort", 3) = 0
    /\ \E c \in ready_now : ~ScoresAtLeast(c, recommended_next)
    /\ \E c \in Sourceless : ~ScoresAtLeast(c, recommended)
    /\ recommended # recommended_next

\* a step that executes the while body once; passes counts the executions
\* and only such a step adds to it, so a bound on passes bounds the loop
PassStep == pc = "sat" /\ passes' = passes + 1

(* C9 (as stated): the loop of satisfied_nodes ends after at most V        *)
(* executions of the while body, V the number of nodes, and every pass     *)
(* that adds a node strictly grows sat.                                    *)
C9_AtMostVPasses ==
    [][PassStep => /\ passes' <= Len(nodes)
                   /\ changed' => (sat \subseteq sat' /\ sat # sat')]_vars

(* C9 (amended): the loop ends after at most max(V, 1) executions of the   *)
(* while body (the body runs once on a graph without nodes), and every     *)
(* pass that adds a node strictly grows sat.                               *)
C9_AtMostVOrOnePasses ==
    [][PassStep => /\ passes' <= Max(Len(nodes), 1)
                   /\ changed' => (sat \subseteq sat' /\ sat # sat')]_vars

C9_Witness ==
    /\ pc = "sat"
    /\ round = 1
    /\ ~changed
    /\ passes = 2
    /\ Len(nodes) = 2
    /\ sat # done_set

(* C10: run to a fixpoint, the loop of satisfied_nodes yields the same     *)
(* set whatever order the nodes are scanned in.                            *)
C10_ScanOrderIndependent ==
    /\ FirstReturned => sat1 = satisfied_nodes(done_set)
    /\ pc = "fn_done" => sat = satisfied_nodes(sat1)

C10_Witness ==
    /\ FirstReturned
    /\ pc = "fn_sat"
    /\ passes >= 3
    /\ sat1 = satisfied_nodes(done_set)
    /\ \E n \in sat1 \ done_set : NodeType(n) = "or"
    /\ \E n \in sat1 \ done_set : NodeType(n) = "and"

====
